---- MODULE Spec2Model ----
(***************************************************************************)
(* Model of dspygen's ChatGPTChromaDBRetriever                             *)
(* (src/src/dspygen/rm/chatgpt_codemaster_retriever.py): the checksum      *)
(* gate of the constructor, the streaming walk over the conversation       *)
(* archive, the fence splitter, the check-then-add/update writes to the    *)
(* collection, and forward().                                              *)
(*                                                                         *)
(* Text is modelled as a tuple of one-character strings, so that strip,    *)
(* startswith, split and join are computed and not assumed.                *)
(***************************************************************************)
EXTENDS Integers, Sequences, FiniteSets, TLC

VARIABLES
    \* ---- the retriever and what it shares with the world ----
    json_file,        \* content of conversations.json: the items ijson yields, and
                      \* whether the byte stream breaks off after them
    checksum_file,    \* content of last_checksum.txt (None: no such file)
    collection,       \* the Chroma collection: a sequence of records
    temp_code,        \* files written under data/temp_code
    last_pass,        \* the collection as the previous completed pass left it
    proc,             \* per process: position and the retriever's fields and locals
    \* ---- the splitter run on its own (specification SplitSpec) ----
    parts,            \* the argument of _extract_code_and_text
    part_i,           \* index of the next part of the outer for loop
    lines,            \* lines of the current string part not yet looked at
    locals,           \* is_code_block, current_code, current_text, code_snippets, non_code_text
    split_pc          \* "off" | "loop" | "done"

split_vars == <<parts, part_i, lines, locals, split_pc>>

ingest_vars == <<json_file, checksum_file, collection, temp_code, last_pass, proc>>

vars == <<json_file, checksum_file, collection, temp_code, last_pass, proc,
          parts, part_i, lines, locals, split_pc>>

\* ------------------------------------------------------------------ text

\* one character each; BT stands for the backtick character
BT == "BT"
SP == " "
TAB == "\t"
NL == "\n"

Whitespace == {SP, TAB, NL}

\* str.lstrip / str.rstrip / str.strip
RECURSIVE LStrip(_)
LStrip(s) ==
    IF s # <<>> /\ Head(s) \in Whitespace THEN LStrip(Tail(s)) ELSE s

RECURSIVE RStrip(_)
RStrip(s) ==
    IF s # <<>> /\ s[Len(s)] \in Whitespace
    THEN RStrip(SubSeq(s, 1, Len(s) - 1))
    ELSE s

Strip(s) == RStrip(LStrip(s))

\* str.startswith
StartsWith(s, prefix) ==
    /\ Len(s) >= Len(prefix)
    /\ SubSeq(s, 1, Len(prefix)) = prefix

\* part.split("\n"): always at least one line; no line holds a newline
RECURSIVE SplitAcc(_, _, _)
SplitAcc(s, cur, acc) ==
    IF s = <<>> THEN Append(acc, cur)
    ELSE IF Head(s) = NL THEN SplitAcc(Tail(s), <<>>, Append(acc, cur))
    ELSE SplitAcc(Tail(s), Append(cur, Head(s)), acc)

SplitLines(s) == SplitAcc(s, <<>>, <<>>)

\* sep.join(items)
RECURSIVE Join(_, _)
Join(items, sep) ==
    IF items = <<>> THEN <<>>
    ELSE IF Len(items) = 1 THEN items[1]
    ELSE items[1] \o sep \o Join(Tail(items), sep)

RECURSIVE SeqsUpTo(_, _)
SeqsUpTo(S, n) ==
    IF n = 0 THEN {<<>>}
    ELSE LET shorter == SeqsUpTo(S, n - 1)
         IN  shorter \cup { Append(s, x) : s \in shorter, x \in S }

\* ------------------------------------------------------- content parts

\* A content part is Union[str, dict] (ContentPart.parts).
StrPart(s) == [t |-> "str", v |-> s]
DictPart == [t |-> "dict", v |-> <<>>]

IsStr(part) == part.t = "str"

FenceMarker == <<BT, BT, BT>>

\* line.strip().startswith(three backticks)
IsFence(line) == StartsWith(Strip(line), FenceMarker)

\* ------------------------------------------------------------ splitter

\* the five locals of _extract_code_and_text at its entry
SplitInit ==
    [is_code_block |-> FALSE,
     current_code  |-> <<>>,
     current_text  |-> <<>>,
     code_snippets |-> <<>>,
     non_code_text |-> <<>>]

\* body of "for line in lines"
SplitLineMut(st, line) ==
    IF IsFence(line) /\ ~st.is_code_block
    THEN [st EXCEPT !.is_code_block = TRUE]
    ELSE IF IsFence(line) /\ st.is_code_block
    THEN [st EXCEPT
            !.is_code_block = FALSE,
            !.code_snippets = IF st.current_code # <<>>
                              THEN Append(@, Join(st.current_code, <<NL>>))
                              ELSE @,
            !.current_code  = <<>>]
    ELSE IF st.is_code_block
    THEN [st EXCEPT !.current_code = Append(@, line)]
    ELSE [st EXCEPT !.current_text = Append(@, line)]

SplitLine(st, line) ==
    IF IsFence(line) /\ ~st.is_code_block
    THEN [st EXCEPT
            !.is_code_block = TRUE,
            !.non_code_text = IF st.current_text # <<>>
                              THEN Append(@, Join(st.current_text, <<SP>>))
                              ELSE @,
            !.current_text  = <<>>]
    ELSE IF IsFence(line) /\ st.is_code_block
    THEN [st EXCEPT
            !.is_code_block = FALSE,
            !.code_snippets = IF st.current_code # <<>>
                              THEN Append(@, Join(st.current_code, <<NL>>))
                              ELSE @,
            !.current_code  = <<>>]
    ELSE IF st.is_code_block
    THEN [st EXCEPT !.current_code = Append(@, line)]
    ELSE [st EXCEPT !.current_text = Append(@, line)]

\* the flush after the loops: "if current_text: non_code_text.append(...)"
FinalFlushMut(st) ==
    [st EXCEPT
        !.non_code_text = IF st.current_text # <<>>
                          THEN Append(@, Join(st.current_text, <<SP>>))
                          ELSE @,
        !.code_snippets = IF st.current_code # <<>>
                          THEN Append(@, Join(st.current_code, <<NL>>))
                          ELSE @]

FinalFlushSkip(st) == st

FinalFlush(st) ==
    [st EXCEPT
        !.non_code_text = IF st.current_text # <<>>
                          THEN Append(@, Join(st.current_text, <<SP>>))
                          ELSE @]

RECURSIVE SplitLinesFold(_, _)
SplitLinesFold(st, ls) ==
    IF ls = <<>> THEN st ELSE SplitLinesFold(SplitLine(st, Head(ls)), Tail(ls))

RECURSIVE SplitPartsFold(_, _)
SplitPartsFold(st, ps) ==
    IF ps = <<>> THEN st
    ELSE IF IsStr(Head(ps))
    THEN SplitPartsFold(SplitLinesFold(st, SplitLines(Head(ps).v)), Tail(ps))
    ELSE SplitPartsFold(st, Tail(ps))

\* _extract_code_and_text(parts) -> (code_snippets, non_code_text)
extract_code_and_text(ps) ==
    LET st == FinalFlush(SplitPartsFold(SplitInit, ps))
    IN  <<st.code_snippets, st.non_code_text>>

\* ------------------------------------------------------------ optionals

\* Python's None and a present value
None == <<>>
Some(x) == <<x>>

Min(a, b) == IF a <= b THEN a ELSE b

\* zip(a, b): stops at the shorter list
ZipMut(a, b) == [i \in 1..Len(a) |-> <<a[i], IF i <= Len(b) THEN b[i] ELSE <<>>>>]
Zip(a, b) == [i \in 1..Min(Len(a), Len(b)) |-> <<a[i], b[i]>>]

\* ----------------------------------------------------------- JSON values

\* What ijson yields: str, null, number, list, dict (a dict keeps its key order).
JStr(s) == [t |-> "str", v |-> s]
JNull == [t |-> "null", v |-> <<>>]
JNum == [t |-> "num", v |-> <<>>]
JList(xs) == [t |-> "list", v |-> xs]
JDict(pairs) == [t |-> "dict", v |-> pairs]

Has(d, k) == \E i \in 1..Len(d.v) : d.v[i][1] = k
Get(d, k) == d.v[CHOOSE i \in 1..Len(d.v) : d.v[i][1] = k][2]
Values(d) == [i \in 1..Len(d.v) |-> d.v[i][2]]

\* ------------------------------------------------ pydantic's validation

IsA(d, k, type) == Has(d, k) /\ Get(d, k).t = type
IsOptional(d, k, type) == IF Has(d, k) THEN Get(d, k).t \in {"null", type} ELSE TRUE
AllOf(xs, types) == \A i \in 1..Len(xs) : xs[i].t \in types

\* class Author(BaseModel)
ValidAuthor(a) ==
    /\ a.t = "dict"
    /\ IsA(a, "role", "str")
    /\ IsOptional(a, "name", "str")
    /\ IsA(a, "metadata", "dict")

\* class ContentPart(BaseModel)
ValidContentPart(c) ==
    /\ c.t = "dict"
    /\ IsA(c, "content_type", "str")
    /\ IF IsA(c, "parts", "list")
       THEN AllOf(Get(c, "parts").v, {"str", "dict"})
       ELSE IsOptional(c, "parts", "null")

\* class Message(BaseModel)
ValidMessage(m) ==
    /\ m.t = "dict"
    /\ IsA(m, "id", "str")
    /\ Has(m, "author") /\ ValidAuthor(Get(m, "author"))
    /\ Has(m, "content") /\ ValidContentPart(Get(m, "content"))
    /\ IsA(m, "status", "str")
    /\ IsA(m, "metadata", "dict")

\* class Data(BaseModel), applied to a dict (Data(**data))
ValidData(d) ==
    /\ IsA(d, "id", "str")
    /\ IF IsOptional(d, "message", "null")
       THEN TRUE
       ELSE ValidMessage(Get(d, "message"))
    /\ IsOptional(d, "parent", "str")
    /\ IsA(d, "children", "list") /\ AllOf(Get(d, "children").v, {"str"})

\* class Conversation(BaseModel), applied to a dict (Conversation(**conversation))
ValidConversation(c) ==
    /\ IsA(c, "title", "str")
    /\ IsA(c, "mapping", "dict")

\* validated_data.id
DataId(d) == Get(d, "id").v

\* validated_data.message (None when absent or null)
DataMessage(d) ==
    IF Has(d, "message") /\ Get(d, "message").t = "dict"
    THEN Some(Get(d, "message"))
    ELSE None

\* message.content.parts (None when absent or null)
MessageParts(m) ==
    LET c == Get(m, "content")
    IN  IF IsA(c, "parts", "list") THEN Some(Get(c, "parts").v) ELSE None

\* message.author.role
MessageRole(m) == Get(Get(m, "author"), "role").v

\* ------------------------------------------------------------- digests

\* hashlib.md5(...).hexdigest(): a digest names its input, and nothing else
\* has that digest (md5 taken as collision free on these inputs)
MD5(x) == <<"md5", x>>

\* calculate_file_checksum(file_path)
calculate_file_checksum(file) == MD5(file)

\* _load_last_processed_checksum: the file's text, None when there is no file
load_last_processed_checksum(file) == IF file = None THEN None ELSE Some(file[1])

\* "if self.current_checksum != self.last_processed_checksum"
HasChangedMut(current, last) == TRUE
HasChanged(current, last) == Some(current) # last

\* ---------------------------------------------------- snippets of a node

\* lines 119-124: the (snippet, description) pairs of a validated node
NodePairs(d) ==
    LET m == DataMessage(d)
    IN  IF m # None /\ MessageParts(m[1]) # None /\ MessageParts(m[1])[1] # <<>>
        THEN LET r == extract_code_and_text(MessageParts(m[1])[1])
             IN  IF r[1] # <<>> THEN Zip(r[1], r[2]) ELSE <<>>
        ELSE <<>>

\* document_id = f"{validated_data.id}_{md5(snippet)}"
DocumentIdMut(d, snippet) == <<Get(Get(d, "message"), "id").v, "_", MD5(snippet)>>
DocumentId(d, snippet) == <<DataId(d), "_", MD5(snippet)>>

\* metadatas=[{"id": validated_data.id, "description": description}]
Metadata(d, description) == [id |-> DataId(d), description |-> description]

\* ------------------------------------------------------ the collection

\* collection.get(ids=[document_id])
CollectionGet(coll, id) ==
    LET Hit(r) == r.id = id
        hits == SelectSeq(coll, Hit)
    IN  [ids |-> [i \in 1..Len(hits) |-> hits[i].id]]

\* "if len(search_results["ids"]) > 0"
DocExistsMut(search_results) == FALSE
DocExists(search_results) == Len(search_results.ids) > 0

\* collection.update(ids, documents, metadatas): the document is replaced and
\* the given metadata keys are written over the record's
MergeMeta(old, new) ==
    [k \in DOMAIN old \cup DOMAIN new |-> IF k \in DOMAIN new THEN new[k] ELSE old[k]]

CollectionUpdateMut(coll, id, doc, meta) ==
    Append(coll, [id |-> id, document |-> doc, metadata |-> meta])

CollectionUpdate(coll, id, doc, meta) ==
    [i \in 1..Len(coll) |->
        IF coll[i].id = id
        THEN [id |-> id, document |-> doc, metadata |-> MergeMeta(coll[i].metadata, meta)]
        ELSE coll[i]]

\* collection.add(documents, metadatas, ids): a new record
CollectionAdd(coll, id, doc, meta) ==
    Append(coll, [id |-> id, document |-> doc, metadata |-> meta])

\* lines 127-144 as one function of the collection: look up, then update or add
Upsert(coll, id, doc, meta) ==
    IF DocExists(CollectionGet(coll, id))
    THEN CollectionUpdate(coll, id, doc, meta)
    ELSE CollectionAdd(coll, id, doc, meta)

\* f"# {description}\n{snippet}"
SnippetFileText(snippet, description) == <<"#", SP>> \o description \o <<NL>> \o snippet

\* -------------------------------------------------------- the processes

\* "main" runs main(); "other" is a second invocation against the same
\* persist directory, started only in ConcurrentSpec
Procs == {"main", "other"}

\* self.k of the constructor's default k=5
DefaultK == 5

NoCall == [query_or_queries |-> JList(<<>>), k |-> None, contains |-> None,
           role |-> "", embed |-> "", query |-> "",
           embed_called |-> FALSE, query_called |-> FALSE,
           embedded |-> <<>>, sent |-> <<>>]

\* a process that has not yet built its retriever
NewProc(cfu) ==
    [pc                      |-> "new",
     check_for_updates       |-> cfu,
     current_checksum        |-> None,
     last_processed_checksum |-> None,
     in_init                 |-> FALSE,
     enforced                |-> FALSE,
     count                   |-> -1,
     temp_code_directory     |-> None,
     nodes                   |-> <<>>,
     validated_data          |-> None,
     pairs                   |-> <<>>,
     document_id             |-> None,
     search_results          |-> None,
     ops                     |-> <<>>,
     log                     |-> {},
     exception               |-> "",
     call                    |-> NoCall,
     result                  |-> <<>>]

OffProc == [NewProc(FALSE) EXCEPT !.pc = "off"]

\* the locals of one pass of _process_and_store_conversations at its entry
EnterPass(r, from_init) ==
    [r EXCEPT
        !.pc = "walk",
        !.in_init = from_init,
        !.enforced = ~from_init,
        !.count = -1,
        !.temp_code_directory = None,
        !.nodes = <<>>,
        !.validated_data = None,
        !.pairs = <<>>,
        !.document_id = None,
        !.search_results = None,
        !.ops = <<>>,
        !.log = {}]

\* the pass returns to its caller: __init__ goes on to save the checksum
LeavePass(r) ==
    [r EXCEPT
        !.pc = IF r.in_init THEN "save" ELSE "idle",
        !.temp_code_directory = None]

\* an exception nothing catches ends the process
Raise(r, exc) == [r EXCEPT !.pc = "crashed", !.exception = exc]

\* the item ijson yields next, if the stream holds one more
HasNextItem(r) == r.count + 2 <= Len(json_file.items)
NextItem(r) == json_file.items[r.count + 2]

\* f"{value}" of a JSON value inside a path
FormatValue(x) == IF x.t = "str" THEN x.v ELSE IF x.t = "null" THEN "None" ELSE x.t

\* Path.mkdir(parents=True, exist_ok=True)
Mkdir(files, dir) == files \cup {[dir |-> dir, name |-> None, text |-> None]}

\* file_path.open("w").write(text): the file is created or overwritten
WriteFile(files, dir, name, text) ==
    {f \in files : ~(f.dir = dir /\ f.name = name)}
        \cup {[dir |-> dir, name |-> name, text |-> Some(text)]}

\* --------------------------------------------------------- __init__

\* lines 79-80: check_for_updates is off, nothing is read
ConstructNoCheck(p) ==
    /\ proc[p].pc = "new"
    /\ ~proc[p].check_for_updates
    /\ proc' = [proc EXCEPT ![p] = [@ EXCEPT !.pc = "idle"]]
    /\ UNCHANGED <<json_file, checksum_file, collection, temp_code, last_pass, split_vars>>

\* lines 82-85, checksums equal: nothing is processed
ConstructSkip(p) ==
    /\ proc[p].pc = "new"
    /\ proc[p].check_for_updates
    /\ LET current == calculate_file_checksum(json_file)
           last == load_last_processed_checksum(checksum_file)
       IN  /\ ~HasChanged(current, last)
           /\ proc' = [proc EXCEPT ![p] = [@ EXCEPT
                        !.pc = "idle",
                        !.current_checksum = Some(current),
                        !.last_processed_checksum = last]]
    /\ UNCHANGED <<json_file, checksum_file, collection, temp_code, last_pass, split_vars>>

\* lines 82-87, checksums differ: __init__ enters _process_and_store_conversations
ConstructProcess(p) ==
    /\ proc[p].pc = "new"
    /\ proc[p].check_for_updates
    /\ LET current == calculate_file_checksum(json_file)
           last == load_last_processed_checksum(checksum_file)
       IN  /\ HasChanged(current, last)
           /\ proc' = [proc EXCEPT ![p] = EnterPass([@ EXCEPT
                        !.current_checksum = Some(current),
                        !.last_processed_checksum = last], TRUE)]
    /\ UNCHANGED <<json_file, checksum_file, collection, temp_code, last_pass, split_vars>>

\* line 88: _save_last_processed_checksum
SaveChecksumMut(p) ==
    /\ proc[p].pc = "save"
    /\ checksum_file' = Some(calculate_file_checksum(json_file))
    /\ proc' = [proc EXCEPT ![p] = [@ EXCEPT !.pc = "idle"]]
    /\ UNCHANGED <<json_file, collection, temp_code, last_pass, split_vars>>

SaveChecksum(p) ==
    /\ proc[p].pc = "save"
    /\ checksum_file' = proc[p].current_checksum
    /\ proc' = [proc EXCEPT ![p] = [@ EXCEPT !.pc = "idle"]]
    /\ UNCHANGED <<json_file, collection, temp_code, last_pass, split_vars>>

\* ------------------------------------ _process_and_store_conversations

\* ---------------------------------------------------- bounded archives

MaxConvs == 2

T_intro == <<"i", "n", "t", "r", "o">>
T_outro == <<"o", "u", "t", "r", "o">>
T_x1 == <<"x", SP, "=", SP, "1">>
T_y == <<"y">>
T_see == <<"s", "e", "e">>
T_old == <<"o", "l", "d">>

\* "see", a block "x = 1", a block "y": two snippets, one prose segment
T_two_blocks ==
    T_see \o <<NL>> \o FenceMarker \o <<NL>> \o T_x1 \o <<NL>> \o FenceMarker \o <<NL>>
          \o FenceMarker \o <<NL>> \o T_y \o <<NL>> \o FenceMarker

\* a message as the export writes it
MessageOf(id, role, ps) ==
    JDict(<< <<"id", JStr(id)>>,
             <<"author", JDict(<< <<"role", JStr(role)>>, <<"metadata", JDict(<<>>)>> >>)>>,
             <<"content", JDict(<< <<"content_type", JStr("text")>>, <<"parts", ps>> >>)>>,
             <<"status", JStr("finished_successfully")>>,
             <<"metadata", JDict(<<>>)>> >>)

NodeOf(id, message) ==
    JDict(<< <<"id", JStr(id)>>, <<"message", message>>,
             <<"parent", JNull>>, <<"children", JList(<<>>)>> >>)

\* the conversation of the end-to-end scenario: title "T", one assistant
\* message with parts intro / fence / x = 1 / fence / outro
ConvT ==
    JDict(<< <<"title", JStr("T")>>,
             <<"mapping", JDict(<< <<"n1", NodeOf("n1", MessageOf("n1", "assistant",
                 JList(<<StrPart(T_intro), StrPart(FenceMarker), StrPart(T_x1),
                         StrPart(FenceMarker), StrPart(T_outro)>>)))>> >>)>> >>)

\* a node without message, then a node that reuses the node id n1 for a user
\* message with another message id, the same snippet and a second snippet:
\* two snippets and two prose segments, "see" and "outro"
ConvU ==
    JDict(<< <<"title", JStr("U")>>,
             <<"mapping", JDict(<< <<"n0", NodeOf("n0", JNull)>>,
                                   <<"n1", NodeOf("n1", MessageOf("m2", "user",
                                       JList(<<DictPart, StrPart(T_two_blocks),
                                               StrPart(T_outro)>>)))>> >>)>> >>)

\* no "title" key
ConvNoTitle ==
    JDict(<< <<"mapping", JDict(<< <<"n2", NodeOf("n2", MessageOf("n2", "assistant",
                 JList(<<StrPart(T_two_blocks)>>)))>> >>)>> >>)

\* "title": null
ConvNullTitle ==
    JDict(<< <<"title", JNull>>,
             <<"mapping", JDict(<< <<"n2", NodeOf("n2", MessageOf("n2", "assistant",
                 JList(<<StrPart(T_two_blocks)>>)))>> >>)>> >>)

\* "mapping" is a list
ConvListMapping ==
    JDict(<< <<"title", JStr("L")>>, <<"mapping", JList(<<>>)>> >>)

\* a good node, then a node without "children"
ConvBadNode ==
    JDict(<< <<"title", JStr("B")>>,
             <<"mapping", JDict(<< <<"n3", NodeOf("n3", MessageOf("n3", "assistant",
                                       JList(<<StrPart(T_two_blocks)>>)))>>,
                                   <<"n4", JDict(<< <<"id", JStr("n4")>> >>)>> >>)>> >>)

\* a mapping value that is a string
ConvStrNode ==
    JDict(<< <<"title", JStr("S")>>,
             <<"mapping", JDict(<< <<"n5", JStr("n5")>> >>)>> >>)

ItemSet == {ConvT, ConvU, ConvNoTitle, ConvNullTitle, ConvListMapping,
            ConvBadNode, ConvStrNode}

Archives ==
    { [items |-> s, truncated |-> b] : s \in SeqsUpTo(ItemSet, MaxConvs), b \in BOOLEAN }

\* a collection an earlier run over an older archive left behind
PriorCollections ==
    { <<>>,
      << [id |-> <<"n1", "_", MD5(T_x1)>>, document |-> T_x1,
          metadata |-> [id |-> "n1", description |-> T_old]] >> }

\* ---- arguments of forward ----

ForwardCalls ==
    { [query_or_queries |-> JStr(T_x1), k |-> Some(1), contains |-> None, role |-> "assistant"],
      [query_or_queries |-> JStr(T_x1), k |-> None, contains |-> Some(<<"=">>), role |-> "user"],
      [query_or_queries |-> JStr(<<>>), k |-> None, contains |-> None, role |-> "assistant"],
      [query_or_queries |-> JList(<<>>), k |-> Some(1), contains |-> None, role |-> "assistant"],
      [query_or_queries |-> JList(<<<<>>, <<>>>>), k |-> None, contains |-> None, role |-> "assistant"],
      [query_or_queries |-> JList(<<<<>>, T_y, T_x1>>), k |-> Some(1), contains |-> None,
       role |-> "assistant"],
      [query_or_queries |-> JList(<<T_x1, T_y>>), k |-> None, contains |-> None,
       role |-> "assistant"] }


\* line 337 of main: the pass is called once more on the built retriever
ProcessAndStore(p) ==
    /\ proc[p].pc = "idle"
    /\ ~proc[p].enforced
    /\ proc' = [proc EXCEPT ![p] = EnterPass(@, FALSE)]
    /\ UNCHANGED <<json_file, checksum_file, collection, temp_code, last_pass, split_vars>>

\* lines 109-111: conversation['title'] raises, TypeError when the item is no
\* dict and KeyError when the dict has no "title"; nothing catches either
ConversationTitleError(p) ==
    /\ proc[p].pc = "walk"
    /\ HasNextItem(proc[p])
    /\ LET c == NextItem(proc[p])
       IN  /\ IF c.t = "dict" THEN ~Has(c, "title") ELSE TRUE
           /\ proc' = [proc EXCEPT ![p] =
                        Raise([@ EXCEPT !.count = @ + 1],
                              IF c.t = "dict" THEN "KeyError" ELSE "TypeError")]
    /\ UNCHANGED <<json_file, checksum_file, collection, temp_code, last_pass, split_vars>>

\* lines 109-115, 155-156: Conversation(**conversation) raises ValidationError,
\* which is logged; the for loop goes on
ConversationInvalid(p) ==
    /\ proc[p].pc = "walk"
    /\ HasNextItem(proc[p])
    /\ LET c == NextItem(proc[p])
       IN  /\ c.t = "dict"
           /\ Has(c, "title")
           /\ ~ValidConversation(c)
           /\ temp_code' = Mkdir(temp_code, FormatValue(Get(c, "title")))
           /\ proc' = [proc EXCEPT ![p] = [@ EXCEPT
                        !.count = @ + 1,
                        !.temp_code_directory = Some(FormatValue(Get(c, "title"))),
                        !.log = @ \cup {[error |-> "Validation error", count |-> proc[p].count + 1]}]]
    /\ UNCHANGED <<json_file, checksum_file, collection, last_pass, split_vars>>

\* lines 109-116: the conversation validates; its mapping is iterated
ConversationValid(p) ==
    /\ proc[p].pc = "walk"
    /\ HasNextItem(proc[p])
    /\ LET c == NextItem(proc[p])
       IN  /\ c.t = "dict"
           /\ Has(c, "title")
           /\ ValidConversation(c)
           /\ temp_code' = Mkdir(temp_code, FormatValue(Get(c, "title")))
           /\ proc' = [proc EXCEPT ![p] = [@ EXCEPT
                        !.pc = "nodes",
                        !.count = @ + 1,
                        !.temp_code_directory = Some(FormatValue(Get(c, "title"))),
                        !.nodes = Values(Get(c, "mapping"))]]
    /\ UNCHANGED <<json_file, checksum_file, collection, last_pass, split_vars>>

\* line 157: the stream ends where the array ends; the pass returns
EndOfArchive(p) ==
    /\ proc[p].pc = "walk"
    /\ ~HasNextItem(proc[p])
    /\ ~json_file.truncated
    /\ proc' = [proc EXCEPT ![p] = LeavePass(@)]
    /\ last_pass' = Some(collection)
    /\ UNCHANGED <<json_file, checksum_file, collection, temp_code, split_vars>>

\* lines 158-160: ijson raises JSONError, which is logged; the pass returns
ArchiveJSONError(p) ==
    /\ proc[p].pc = "walk"
    /\ ~HasNextItem(proc[p])
    /\ json_file.truncated
    /\ proc' = [proc EXCEPT ![p] = LeavePass([@ EXCEPT
                    !.log = @ \cup {[error |-> "JSON parsing error", count |-> proc[p].count]}])]
    /\ last_pass' = Some(collection)
    /\ UNCHANGED <<json_file, checksum_file, collection, temp_code, split_vars>>

\* line 116: the mapping is exhausted; back to the for loop over conversations
NodesDone(p) ==
    /\ proc[p].pc = "nodes"
    /\ proc[p].nodes = <<>>
    /\ proc' = [proc EXCEPT ![p] = [@ EXCEPT !.pc = "walk", !.validated_data = None]]
    /\ UNCHANGED <<json_file, checksum_file, collection, temp_code, last_pass, split_vars>>

\* line 117: the mapping value is no dict, Data(**data) raises TypeError
NodeTypeError(p) ==
    /\ proc[p].pc = "nodes"
    /\ proc[p].nodes # <<>>
    /\ Head(proc[p].nodes).t # "dict"
    /\ proc' = [proc EXCEPT ![p] = Raise(@, "TypeError")]
    /\ UNCHANGED <<json_file, checksum_file, collection, temp_code, last_pass, split_vars>>

\* lines 117, 155-156: Data(**data) raises ValidationError, which is logged;
\* the rest of the mapping is left and the for loop over conversations goes on
NodeInvalid(p) ==
    /\ proc[p].pc = "nodes"
    /\ proc[p].nodes # <<>>
    /\ Head(proc[p].nodes).t = "dict"
    /\ ~ValidData(Head(proc[p].nodes))
    /\ proc' = [proc EXCEPT ![p] = [@ EXCEPT
                    !.pc = "walk",
                    !.nodes = <<>>,
                    !.validated_data = None,
                    !.log = @ \cup {[error |-> "Validation error", count |-> proc[p].count]}]]
    /\ UNCHANGED <<json_file, checksum_file, collection, temp_code, last_pass, split_vars>>

\* lines 117-124: the node validates; its snippets are paired with its prose
NodeValid(p) ==
    /\ proc[p].pc = "nodes"
    /\ proc[p].nodes # <<>>
    /\ LET d == Head(proc[p].nodes)
       IN  /\ d.t = "dict"
           /\ ValidData(d)
           /\ proc' = [proc EXCEPT ![p] = [@ EXCEPT
                        !.pc = IF NodePairs(d) # <<>> THEN "get" ELSE "nodes",
                        !.nodes = Tail(@),
                        !.validated_data = Some(d),
                        !.pairs = NodePairs(d)]]
    /\ UNCHANGED <<json_file, checksum_file, collection, temp_code, last_pass, split_vars>>

\* lines 112-113: mkdir of the conversation's directory raises OSError, outside
\* the inner try; the outer except names ijson.JSONError only
MkdirError(p) ==
    /\ proc[p].pc = "walk"
    /\ HasNextItem(proc[p])
    /\ NextItem(proc[p]).t = "dict"
    /\ Has(NextItem(proc[p]), "title")
    /\ proc' = [proc EXCEPT ![p] = Raise([@ EXCEPT !.count = @ + 1], "OSError")]
    /\ UNCHANGED <<json_file, checksum_file, collection, temp_code, last_pass, split_vars>>

\* line 128: collection.get raises; no except clause names the store's errors
GetDocumentError(p) ==
    /\ proc[p].pc = "get"
    /\ proc' = [proc EXCEPT ![p] =
                    Raise([@ EXCEPT !.document_id =
                              Some(DocumentId(proc[p].validated_data[1],
                                              proc[p].pairs[1][1]))],
                          "StoreError")]
    /\ UNCHANGED <<json_file, checksum_file, collection, temp_code, last_pass, split_vars>>

\* lines 131-143: collection.update or collection.add raises; nothing is written
WriteDocumentError(p) ==
    /\ proc[p].pc = "write"
    /\ proc' = [proc EXCEPT ![p] = Raise(@, "StoreError")]
    /\ UNCHANGED <<json_file, checksum_file, collection, temp_code, last_pass, split_vars>>

\* lines 148-152: opening or writing the snippet file raises OSError, after the
\* record was written to the collection
SaveSnippetError(p) ==
    /\ proc[p].pc = "file"
    /\ proc[p].pairs[1][1] # <<>>
    /\ proc[p].pairs[1][2] # <<>>
    /\ proc' = [proc EXCEPT ![p] = Raise(@, "OSError")]
    /\ UNCHANGED <<json_file, checksum_file, collection, temp_code, last_pass, split_vars>>

\* lines 125-128: the identifier is built and looked up
GetDocument(p) ==
    /\ proc[p].pc = "get"
    /\ LET id == DocumentId(proc[p].validated_data[1], proc[p].pairs[1][1])
       IN  proc' = [proc EXCEPT ![p] = [@ EXCEPT
                        !.pc = "write",
                        !.document_id = Some(id),
                        !.search_results = Some(CollectionGet(collection, id))]]
    /\ UNCHANGED <<json_file, checksum_file, collection, temp_code, last_pass, split_vars>>

\* lines 129-136: the identifier was found; the record is updated
UpdateDocument(p) ==
    /\ proc[p].pc = "write"
    /\ DocExists(proc[p].search_results[1])
    /\ LET id == proc[p].document_id[1]
           snippet == proc[p].pairs[1][1]
           meta == Metadata(proc[p].validated_data[1], proc[p].pairs[1][2])
       IN  /\ collection' = CollectionUpdate(collection, id, snippet, meta)
           /\ proc' = [proc EXCEPT ![p] = [@ EXCEPT
                        !.pc = "file",
                        !.ops = Append(@, [op |-> "update", count |-> proc[p].count, ids |-> id,
                                           documents |-> snippet, metadatas |-> meta])]]
    /\ UNCHANGED <<json_file, checksum_file, temp_code, last_pass, split_vars>>

\* lines 137-144: the identifier was not found; a record is added
AddDocument(p) ==
    /\ proc[p].pc = "write"
    /\ ~DocExists(proc[p].search_results[1])
    /\ LET id == proc[p].document_id[1]
           snippet == proc[p].pairs[1][1]
           meta == Metadata(proc[p].validated_data[1], proc[p].pairs[1][2])
       IN  /\ collection' = CollectionAdd(collection, id, snippet, meta)
           /\ proc' = [proc EXCEPT ![p] = [@ EXCEPT
                        !.pc = "file",
                        !.ops = Append(@, [op |-> "add", count |-> proc[p].count, ids |-> id,
                                           documents |-> snippet, metadatas |-> meta])]]
    /\ UNCHANGED <<json_file, checksum_file, temp_code, last_pass, split_vars>>

\* lines 146-153: the snippet file is written when snippet and description are
\* both non-empty; then the next pair, or the next node
SaveSnippet(p) ==
    /\ proc[p].pc = "file"
    /\ LET snippet == proc[p].pairs[1][1]
           description == proc[p].pairs[1][2]
       IN  temp_code' =
             IF snippet # <<>> /\ description # <<>>
             THEN WriteFile(temp_code, proc[p].temp_code_directory[1],
                            proc[p].document_id, SnippetFileText(snippet, description))
             ELSE temp_code
    /\ proc' = [proc EXCEPT ![p] = [@ EXCEPT
                    !.pc = IF Len(proc[p].pairs) > 1 THEN "get" ELSE "nodes",
                    !.pairs = Tail(@),
                    !.document_id = None,
                    !.search_results = None]]
    /\ UNCHANGED <<json_file, checksum_file, collection, last_pass, split_vars>>

\* ------------------------------------------------------------- forward

\* the embedding function: text -> vector
Embed(text) == <<"vec", text>>

\* "$contains": substring of the document
Contains(doc, sub) ==
    \E i \in 0..(Len(doc) - Len(sub)) : SubSeq(doc, i + 1, i + Len(sub)) = sub

\* where={"role": role}: exact match on a metadata key the record has
WhereMut(meta, where) == TRUE
Where(meta, where) ==
    \A k \in DOMAIN where : k \in DOMAIN meta /\ meta[k] = where[k]

\* collection.query(query_embeddings, n_results, where, where_document) for one
\* embedding: the records that pass the filters, nearest first, at most n_results
QueryOne(coll, embedding, n_results, where, contains) ==
    LET Pass(r) == /\ Where(r.metadata, where)
                   /\ contains = None \/ Contains(r.document, contains[1])
        Near(r) == Embed(r.document) = embedding
        Far(r) == Embed(r.document) # embedding
        passing == SelectSeq(coll, Pass)
        ranked == SelectSeq(passing, Near) \o SelectSeq(passing, Far)
    IN  SubSeq(ranked, 1, Min(n_results, Len(ranked)))

CollectionQuery(coll, embeddings, n_results, where, contains) ==
    LET hits == [i \in 1..Len(embeddings) |->
                    QueryOne(coll, embeddings[i], n_results, where, contains)]
    IN  [documents |-> [i \in 1..Len(hits) |-> [j \in 1..Len(hits[i]) |-> hits[i][j].document]],
         metadatas |-> [i \in 1..Len(hits) |-> [j \in 1..Len(hits[i]) |-> hits[i][j].metadata]]]

\* meta.get(key, "")
MetaGet(meta, key, default) == IF key \in DOMAIN meta THEN meta[key] ELSE default

\* forward without line 248: empty queries are not dropped
forwardUnfiltered(coll, self_k, query_or_queries, k, contains, role, embed, query) ==
    LET queries == IF query_or_queries.t = "str"
                   THEN <<query_or_queries.v>>
                   ELSE query_or_queries.v
        embeddings == IF embed = "none" THEN <<>>
                      ELSE [i \in 1..Len(queries) |->
                               IF embed = "blank" /\ i = 1 THEN <<>> ELSE Embed(queries[i])]
        n == IF k = None THEN self_k ELSE k[1]
        results == CollectionQuery(coll, embeddings, n, [role |-> role], contains)
        documents == results.documents[1]
        metadatas == results.metadatas[1]
    IN  IF queries = <<>>
        THEN [result |-> <<>>, embed_called |-> FALSE, query_called |-> FALSE,
              embedded |-> <<>>, sent |-> <<>>]
        ELSE IF embed = "raise"
        THEN [result |-> <<>>, embed_called |-> TRUE, query_called |-> FALSE,
              embedded |-> queries, sent |-> <<>>]
        ELSE IF embeddings = <<>> \/ embeddings[1] = <<>>
        THEN [result |-> <<>>, embed_called |-> TRUE, query_called |-> FALSE,
              embedded |-> queries, sent |-> <<>>]
        ELSE IF query = "raise"
        THEN [result |-> <<>>, embed_called |-> TRUE, query_called |-> TRUE,
              embedded |-> queries, sent |-> embeddings]
        ELSE [result |-> [i \in 1..Min(Len(documents), Len(metadatas)) |->
                            [code |-> documents[i],
                             description |-> MetaGet(metadatas[i], "description", <<>>),
                             id |-> MetaGet(metadatas[i], "id", "")]],
              embed_called |-> TRUE, query_called |-> TRUE,
              embedded |-> queries, sent |-> embeddings]

\* forward without lines 260-262: missing embeddings are sent on to the store,
\* which finds nothing
forwardUnguarded(coll, self_k, query_or_queries, k, contains, role, embed, query) ==
    LET listed == IF query_or_queries.t = "str"
                  THEN <<query_or_queries.v>>
                  ELSE query_or_queries.v
        NonEmpty(q) == q # <<>>
        queries == SelectSeq(listed, NonEmpty)
        embeddings == [i \in 1..Len(queries) |-> Embed(queries[i])]
        n == IF k = None THEN self_k ELSE k[1]
        results == CollectionQuery(coll, embeddings, n, [role |-> role], contains)
        documents == results.documents[1]
        metadatas == results.metadatas[1]
    IN  IF queries = <<>>
        THEN [result |-> <<>>, embed_called |-> FALSE, query_called |-> FALSE,
              embedded |-> <<>>, sent |-> <<>>]
        ELSE IF embed = "raise"
        THEN [result |-> <<>>, embed_called |-> TRUE, query_called |-> FALSE,
              embedded |-> queries, sent |-> <<>>]
        ELSE IF query = "raise" \/ embed \in {"none", "blank"}
        THEN [result |-> <<>>, embed_called |-> TRUE, query_called |-> TRUE,
              embedded |-> queries, sent |-> embeddings]
        ELSE [result |-> [i \in 1..Min(Len(documents), Len(metadatas)) |->
                            [code |-> documents[i],
                             description |-> MetaGet(metadatas[i], "description", <<>>),
                             id |-> MetaGet(metadatas[i], "id", "")]],
              embed_called |-> TRUE, query_called |-> TRUE,
              embedded |-> queries, sent |-> embeddings]

\* forward reading the results of the last query of the batch, not the first
forwardLastQuery(coll, self_k, query_or_queries, k, contains, role, embed, query) ==
    LET listed == IF query_or_queries.t = "str"
                  THEN <<query_or_queries.v>>
                  ELSE query_or_queries.v
        NonEmpty(q) == q # <<>>
        queries == SelectSeq(listed, NonEmpty)
        embeddings == IF embed = "none" THEN <<>>
                      ELSE [i \in 1..Len(queries) |->
                               IF embed = "blank" /\ i = 1 THEN <<>> ELSE Embed(queries[i])]
        n == IF k = None THEN self_k ELSE k[1]
        results == CollectionQuery(coll, embeddings, n, [role |-> role], contains)
        documents == results.documents[Len(results.documents)]
        metadatas == results.metadatas[Len(results.metadatas)]
    IN  IF queries = <<>>
        THEN [result |-> <<>>, embed_called |-> FALSE, query_called |-> FALSE,
              embedded |-> <<>>, sent |-> <<>>]
        ELSE IF embed = "raise"
        THEN [result |-> <<>>, embed_called |-> TRUE, query_called |-> FALSE,
              embedded |-> queries, sent |-> <<>>]
        ELSE IF embeddings = <<>> \/ embeddings[1] = <<>>
        THEN [result |-> <<>>, embed_called |-> TRUE, query_called |-> FALSE,
              embedded |-> queries, sent |-> <<>>]
        ELSE IF query = "raise"
        THEN [result |-> <<>>, embed_called |-> TRUE, query_called |-> TRUE,
              embedded |-> queries, sent |-> embeddings]
        ELSE [result |-> [i \in 1..Min(Len(documents), Len(metadatas)) |->
                            [code |-> documents[i],
                             description |-> MetaGet(metadatas[i], "description", <<>>),
                             id |-> MetaGet(metadatas[i], "id", "")]],
              embed_called |-> TRUE, query_called |-> TRUE,
              embedded |-> queries, sent |-> embeddings]

\* lines 247-289. embed is what the embedding function does ("ok", "raise",
\* "none": no embeddings, "blank": an empty first embedding), query what the
\* collection's query does ("ok", "raise").  embedded is the list handed to the
\* embedding function and sent the embeddings handed to collection.query.
forward(coll, self_k, query_or_queries, k, contains, role, embed, query) ==
    LET listed == IF query_or_queries.t = "str"
                  THEN <<query_or_queries.v>>
                  ELSE query_or_queries.v
        NonEmpty(q) == q # <<>>
        queries == SelectSeq(listed, NonEmpty)
        embeddings == IF embed = "none" THEN <<>>
                      ELSE [i \in 1..Len(queries) |->
                               IF embed = "blank" /\ i = 1 THEN <<>> ELSE Embed(queries[i])]
        n == IF k = None THEN self_k ELSE k[1]
        results == CollectionQuery(coll, embeddings, n, [role |-> role], contains)
        documents == results.documents[1]
        metadatas == results.metadatas[1]
    IN  IF queries = <<>>
        THEN [result |-> <<>>, embed_called |-> FALSE, query_called |-> FALSE,
              embedded |-> <<>>, sent |-> <<>>]
        ELSE IF embed = "raise"
        THEN [result |-> <<>>, embed_called |-> TRUE, query_called |-> FALSE,
              embedded |-> queries, sent |-> <<>>]
        ELSE IF embeddings = <<>> \/ embeddings[1] = <<>>
        THEN [result |-> <<>>, embed_called |-> TRUE, query_called |-> FALSE,
              embedded |-> queries, sent |-> <<>>]
        ELSE IF query = "raise"
        THEN [result |-> <<>>, embed_called |-> TRUE, query_called |-> TRUE,
              embedded |-> queries, sent |-> embeddings]
        ELSE [result |-> [i \in 1..Min(Len(documents), Len(metadatas)) |->
                            [code |-> documents[i],
                             description |-> MetaGet(metadatas[i], "description", <<>>),
                             id |-> MetaGet(metadatas[i], "id", "")]],
              embed_called |-> TRUE, query_called |-> TRUE,
              embedded |-> queries, sent |-> embeddings]

\* retriever.forward(...) on the built retriever
Forward(p) ==
    /\ proc[p].pc = "idle"
    /\ \E c \in ForwardCalls, embed \in {"ok", "raise", "none", "blank"},
          query \in {"ok", "raise"} :
         LET out == forward(collection, DefaultK, c.query_or_queries, c.k, c.contains,
                            c.role, embed, query)
         IN  proc' = [proc EXCEPT ![p] = [@ EXCEPT
                        !.pc = "queried",
                        !.call = [query_or_queries |-> c.query_or_queries, k |-> c.k,
                                  contains |-> c.contains, role |-> c.role,
                                  embed |-> IF out.embed_called THEN embed ELSE "",
                                  query |-> IF out.query_called THEN query ELSE "",
                                  embed_called |-> out.embed_called,
                                  query_called |-> out.query_called,
                                  embedded |-> out.embedded,
                                  sent |-> out.sent],
                        !.result = out.result]]
    /\ UNCHANGED <<json_file, checksum_file, collection, temp_code, last_pass, split_vars>>

IngestOff ==
    /\ json_file = [items |-> <<>>, truncated |-> FALSE]
    /\ checksum_file = None
    /\ collection = <<>>
    /\ temp_code = {}
    /\ last_pass = None
    /\ proc = [p \in Procs |-> OffProc]

\* ---- bounded inputs of the splitter ----

MaxParts == 3

T_a == <<"a">>
T_b == <<"b">>
T_code1 == <<"c", "o", "d", "e", "1">>
T_empty == <<>>
T_fence_py == <<SP, BT, BT, BT, "p", "y", SP>>
T_two_ticks == <<BT, BT>>
T_inline == <<"a", SP, BT, BT, BT>>
T_lines == T_a \o <<NL, SP>> \o T_b
T_doc == T_a \o <<NL>> \o FenceMarker \o <<NL>> \o T_code1 \o <<NL>>
         \o FenceMarker \o <<NL>> \o T_b

PartSet ==
    { StrPart(T_a), StrPart(T_b), StrPart(T_code1), StrPart(T_empty),
      StrPart(FenceMarker), StrPart(T_fence_py), StrPart(T_two_ticks),
      StrPart(T_inline), StrPart(T_lines), StrPart(T_doc), DictPart }

\* ---- the splitter, one line at a time ----

SplitSpecInit ==
    /\ parts \in SeqsUpTo(PartSet, MaxParts)
    /\ part_i = 1
    /\ lines = <<>>
    /\ locals = SplitInit
    /\ split_pc = "loop"
    /\ IngestOff

\* "for part in parts": a string part is split into lines
NextStrPart ==
    /\ split_pc = "loop"
    /\ lines = <<>>
    /\ part_i <= Len(parts)
    /\ IsStr(parts[part_i])
    /\ lines' = SplitLines(parts[part_i].v)
    /\ part_i' = part_i + 1
    /\ UNCHANGED <<parts, locals, split_pc, ingest_vars>>

\* "if isinstance(part, str)" is false: the part is passed over
SkipDictPart ==
    /\ split_pc = "loop"
    /\ lines = <<>>
    /\ part_i <= Len(parts)
    /\ ~IsStr(parts[part_i])
    /\ part_i' = part_i + 1
    /\ UNCHANGED <<parts, lines, locals, split_pc, ingest_vars>>

\* "for line in lines"
NextLine ==
    /\ split_pc = "loop"
    /\ lines # <<>>
    /\ locals' = SplitLine(locals, Head(lines))
    /\ lines' = Tail(lines)
    /\ UNCHANGED <<parts, part_i, split_pc, ingest_vars>>

\* after the loops: flush the remaining prose and return
SplitReturn ==
    /\ split_pc = "loop"
    /\ lines = <<>>
    /\ part_i > Len(parts)
    /\ locals' = FinalFlush(locals)
    /\ split_pc' = "done"
    /\ UNCHANGED <<parts, part_i, lines, ingest_vars>>

SplitNext == NextStrPart \/ SkipDictPart \/ NextLine \/ SplitReturn

SplitSpec == SplitSpecInit /\ [][SplitNext]_vars


\* ------------------------------------------------------- specification

SplitOff ==
    /\ parts = <<>>
    /\ part_i = 1
    /\ lines = <<>>
    /\ locals = SplitInit
    /\ split_pc = "off"

Init ==
    /\ json_file \in Archives
    /\ checksum_file \in {None, Some(calculate_file_checksum(json_file)),
                          Some(calculate_file_checksum([items |-> <<>>, truncated |-> FALSE]))}
    /\ collection \in PriorCollections
    /\ temp_code = {}
    /\ last_pass = None
    /\ \E cfu \in BOOLEAN :
         /\ proc = [p \in Procs |-> IF p = "main" THEN NewProc(cfu) ELSE OffProc]
         /\ cfu \/ checksum_file = None
    /\ SplitOff

Next ==
    \/ \E p \in Procs : ConstructNoCheck(p)
    \/ \E p \in Procs : ConstructSkip(p)
    \/ \E p \in Procs : ConstructProcess(p)
    \/ \E p \in Procs : SaveChecksum(p)
    \/ \E p \in Procs : ProcessAndStore(p)
    \/ \E p \in Procs : ConversationTitleError(p)
    \/ \E p \in Procs : ConversationInvalid(p)
    \/ \E p \in Procs : ConversationValid(p)
    \/ \E p \in Procs : EndOfArchive(p)
    \/ \E p \in Procs : ArchiveJSONError(p)
    \/ \E p \in Procs : NodesDone(p)
    \/ \E p \in Procs : NodeTypeError(p)
    \/ \E p \in Procs : NodeInvalid(p)
    \/ \E p \in Procs : NodeValid(p)
    \/ \E p \in Procs : GetDocument(p)
    \/ \E p \in Procs : UpdateDocument(p)
    \/ \E p \in Procs : AddDocument(p)
    \/ \E p \in Procs : SaveSnippet(p)
    \/ \E p \in Procs : Forward(p)
    \/ \E p \in Procs : MkdirError(p)
    \/ \E p \in Procs : GetDocumentError(p)
    \/ \E p \in Procs : WriteDocumentError(p)
    \/ \E p \in Procs : SaveSnippetError(p)

Spec == Init /\ [][Next]_vars

\* ---- two invocations against one persist directory ----

\* archives of valid conversations, fully written
ConcurrentArchives ==
    { a \in Archives :
        /\ ~a.truncated
        /\ a.items # <<>>
        /\ \A i \in 1..Len(a.items) : a.items[i] \in {ConvT, ConvU} }

\* both processes are about to construct their retriever with
\* check_for_updates=True over the same archive, collection and checksum file
ConcurrentInit ==
    /\ json_file \in ConcurrentArchives
    /\ checksum_file = None
    /\ collection = <<>>
    /\ temp_code = {}
    /\ last_pass = None
    /\ proc = [p \in Procs |-> NewProc(TRUE)]
    /\ SplitOff

\* the steps of the two constructors, interleaved as the operating system
\* schedules them: nothing in the code orders one process's steps before the
\* other's
ConcurrentNext ==
    \/ \E p \in Procs : ConstructSkip(p)
    \/ \E p \in Procs : ConstructProcess(p)
    \/ \E p \in Procs : SaveChecksum(p)
    \/ \E p \in Procs : ConversationValid(p)
    \/ \E p \in Procs : EndOfArchive(p)
    \/ \E p \in Procs : NodesDone(p)
    \/ \E p \in Procs : NodeValid(p)
    \/ \E p \in Procs : GetDocument(p)
    \/ \E p \in Procs : UpdateDocument(p)
    \/ \E p \in Procs : AddDocument(p)
    \/ \E p \in Procs : SaveSnippet(p)

ConcurrentSpec == ConcurrentInit /\ [][ConcurrentNext]_vars

\* ---- the archive is rewritten while a run reads it ----

\* what a new export may hold instead: one more conversation, or one less
ModifiedArchives(a) ==
    { [a EXCEPT !.items = Append(@, ConvT)] : x \in {i \in {1} : Len(a.items) < MaxConvs} }
    \cup { [a EXCEPT !.items = SubSeq(@, 1, Len(@) - 1)] : x \in {i \in {1} : a.items # <<>>} }

\* conversations.json is replaced between two conversations of the walk the
\* constructor of p runs (lines 105-157 hold the file open all along); once
\* per run
ModifyArchive(p) ==
    /\ proc[p].pc = "walk"
    /\ proc[p].in_init
    /\ proc[p].current_checksum = Some(calculate_file_checksum(json_file))
    /\ json_file' \in ModifiedArchives(json_file)
    /\ UNCHANGED <<checksum_file, collection, temp_code, last_pass, proc, split_vars>>

ModifyNext ==
    \/ Next
    \/ \E p \in Procs : ModifyArchive(p)

ModifySpec == Init /\ [][ModifyNext]_vars

\* ---- forward over a collection whose records carry a role ----

MaxStore == 2

\* records as a writer that stores the author's role leaves them
StoredRecords ==
    { [id |-> <<"n1", "_", MD5(T_x1)>>, document |-> T_x1,
       metadata |-> [id |-> "n1", description |-> T_intro, role |-> "assistant"]],
      [id |-> <<"n1", "_", MD5(T_y)>>, document |-> T_y,
       metadata |-> [id |-> "n1", description |-> T_see, role |-> "assistant"]],
      [id |-> <<"n2", "_", MD5(T_x1)>>, document |-> T_x1,
       metadata |-> [id |-> "n2", description |-> T_old, role |-> "user"]] }

\* the collections get_or_create_collection (lines 73-76) may open: at most
\* one record per identifier
Stores ==
    { c \in SeqsUpTo(StoredRecords, MaxStore) :
        \A i, j \in 1..Len(c) : c[i].id = c[j].id => i = j }

ForwardInit ==
    /\ json_file = [items |-> <<>>, truncated |-> FALSE]
    /\ checksum_file = None
    /\ collection \in Stores
    /\ temp_code = {}
    /\ last_pass = None
    /\ proc = [p \in Procs |-> IF p = "main" THEN NewProc(FALSE) ELSE OffProc]
    /\ SplitOff

ForwardNext ==
    \/ \E p \in Procs : ConstructNoCheck(p)
    \/ \E p \in Procs : Forward(p)

ForwardSpec == ForwardInit /\ [][ForwardNext]_vars

\* ================================================================ claims

JsonErrorLogged(p) == \E e \in proc[p].log : e.error = "JSON parsing error"

\* the constructor of p ran the pass (its checksums differed)
InitProcessed(p) ==
    /\ proc[p].pc # "new"
    /\ proc[p].check_for_updates
    /\ proc[p].current_checksum # proc[p].last_processed_checksum

\* C1: a retriever built with check_for_updates on whose stored digest equals
\* the digest of the archive has, once built, entered no pass and issued no
\* add and no update, whatever the archive and the collection hold.
C1_ChangeSkip ==
    \A p \in Procs :
        (/\ proc[p].check_for_updates
         /\ proc[p].pc # "new"
         /\ ~proc[p].enforced
         /\ proc[p].current_checksum = proc[p].last_processed_checksum)
        => /\ proc[p].pc \in {"idle", "queried"}
           /\ proc[p].ops = <<>>
           /\ last_pass = None
           /\ temp_code = {}
           /\ checksum_file = proc[p].last_processed_checksum

\* C1 witness: built and skipped although the archive holds a snippet the
\* collection lacks
C1_Witness ==
    /\ proc["main"].check_for_updates
    /\ proc["main"].pc = "idle"
    /\ ~proc["main"].enforced
    /\ proc["main"].current_checksum = proc["main"].last_processed_checksum
    /\ json_file.items = <<ConvT>>
    /\ collection = <<>>

\* C2 (as claimed): after the archive with the one conversation T was ingested,
\* forward("x = 1", k=1, role="assistant") returns exactly one result, whose
\* code is "x = 1"; and after any completed pass over an archive that holds T,
\* that call returns the snippet.
C2_EndToEndRetrievable ==
    \A p \in Procs :
        (/\ proc[p].pc = "queried"
         /\ proc[p].enforced
         /\ \E i \in 1..Len(json_file.items) : json_file.items[i] = ConvT
         /\ proc[p].call.query_or_queries = JStr(T_x1)
         /\ proc[p].call.k = Some(1)
         /\ proc[p].call.contains = None
         /\ proc[p].call.role = "assistant"
         /\ proc[p].call.embed = "ok"
         /\ proc[p].call.query = "ok")
        => /\ Len(proc[p].result) = 1
           /\ proc[p].result[1].code = T_x1

\* C3 (as claimed): when the walk of the constructor's pass ended in a JSON
\* parsing error, the checksum file holds after the run what it held before.
C3_FingerprintKeptOnParseError ==
    \A p \in Procs :
        (/\ proc[p].in_init
         /\ proc[p].pc = "idle"
         /\ JsonErrorLogged(p))
        => checksum_file = proc[p].last_processed_checksum

\* a conversation that fails validation in the claim's sense: title missing or
\* no string, mapping no dict, or a malformed node in the mapping
FailsValidation(c) ==
    /\ c.t = "dict"
    /\ IF ValidConversation(c)
       THEN \E i \in 1..Len(Get(c, "mapping").v) :
                LET d == Get(c, "mapping").v[i][2]
                IN  IF d.t = "dict" THEN ~ValidData(d) ELSE TRUE
       ELSE TRUE

PassesValidation(c) ==
    /\ c.t = "dict"
    /\ ValidConversation(c)
    /\ \A i \in 1..Len(Get(c, "mapping").v) :
           LET d == Get(c, "mapping").v[i][2]
           IN  d.t = "dict" /\ ValidData(d)

\* every snippet of conversation c was written in the pass whose writes are ops
AllWritten(c, ops) ==
    \A i \in 1..Len(Get(c, "mapping").v) :
        LET d == Get(c, "mapping").v[i][2]
        IN  \A j \in 1..Len(NodePairs(d)) :
                \E n \in 1..Len(ops) :
                    /\ ops[n].documents = NodePairs(d)[j][1]
                    /\ ops[n].metadatas.description = NodePairs(d)[j][2]
                    /\ ops[n].metadatas.id = DataId(d)

\* C4 (as claimed): when a pass is over, however it ended, every valid
\* conversation that follows a conversation failing validation has been
\* processed and its snippets written.
C4_PartialFailureTolerance ==
    \A p \in Procs :
        (/\ proc[p].pc \in {"save", "idle", "crashed"}
         /\ proc[p].in_init \/ proc[p].enforced)
        => \A i, j \in 1..Len(json_file.items) :
               (/\ i < j
                /\ FailsValidation(json_file.items[i])
                /\ PassesValidation(json_file.items[j]))
               => AllWritten(json_file.items[j], proc[p].ops)

\* the last write the pass of p issued
LastOp(p) == proc[p].ops[Len(proc[p].ops)]

\* C5: the collection never holds two records under one identifier, and right
\* after a pass upserted (identifier, text, metadata) the one record under the
\* identifier holds that text and metadata, and upserting the same arguments
\* once more leaves the collection as it is.
C5_UpsertIdempotent ==
    /\ \A i, j \in 1..Len(collection) :
           collection[i].id = collection[j].id => i = j
    /\ \A p \in Procs :
           proc[p].pc = "file"
           => LET op == LastOp(p)
              IN  /\ Upsert(collection, op.ids, op.documents, op.metadatas) = collection
                  /\ \E i \in 1..Len(collection) :
                         /\ collection[i].id = op.ids
                         /\ collection[i].document = op.documents
                         /\ collection[i].metadata = op.metadatas

\* C5 witness: one pass has upserted the same identifier twice, first as an
\* add and then as an update
C5_Witness ==
    /\ proc["main"].pc = "file"
    /\ \E i, j \in 1..Len(proc["main"].ops) :
           /\ i < j
           /\ proc["main"].ops[i].ids = proc["main"].ops[j].ids
           /\ proc["main"].ops[i].op = "add"
           /\ proc["main"].ops[j].op = "update"

\* C6: when a pass returns and an earlier pass over the same archive had
\* returned before it, the collection holds exactly the records the earlier
\* pass left, and the later pass issued updates only.
C6_ReingestionIdempotent ==
    [][\A p \in Procs :
          (/\ proc[p].pc = "walk"
           /\ proc'[p].pc \in {"save", "idle"}
           /\ last_pass # None)
          => /\ collection' = last_pass[1]
             /\ \A n \in 1..Len(proc[p].ops) : proc[p].ops[n].op = "update"]_vars

\* C6 witness: the constructor ran the pass, the pass was run again, and the
\* second pass wrote at least two documents
C6_Witness ==
    /\ InitProcessed("main")
    /\ proc["main"].enforced
    /\ proc["main"].pc = "idle"
    /\ last_pass # None
    /\ Len(proc["main"].ops) >= 2

NodeIds == {"n0", "n1", "n2"}
SnippetSet == {T_x1, T_y, T_x1 \o <<NL>> \o T_y}

\* two (node id, snippet) pairs give the same identifier exactly when they
\* are the same pair
IdentifierInjective ==
    \A a, b \in NodeIds : \A s, u \in SnippetSet :
        (DocumentId(NodeOf(a, MessageOf(a, "user", JNull)), s)
           = DocumentId(NodeOf(b, MessageOf(b, "user", JNull)), u))
        <=> (a = b /\ s = u)

FenceLine(line) ==
    LET t == Strip(line)
    IN  Len(t) >= 3 /\ t[1] = BT /\ t[2] = BT /\ t[3] = BT

\* accumulated lines flushed onto an output list: nothing when there are none
Flushed(out, acc, sep) ==
    IF acc = <<>> THEN out ELSE Append(out, Join(acc, sep))

\* what the specified fence-toggle algorithm does to (inCode, code lines,
\* prose lines, codeSnippets, proseSegments) on one line
ToggleStep(st, line) ==
    CASE FenceLine(line) /\ ~st.is_code_block ->
           [is_code_block |-> TRUE,
            current_code  |-> st.current_code,
            current_text  |-> <<>>,
            code_snippets |-> st.code_snippets,
            non_code_text |-> Flushed(st.non_code_text, st.current_text, <<SP>>)]
      [] FenceLine(line) /\ st.is_code_block ->
           [is_code_block |-> FALSE,
            current_code  |-> <<>>,
            current_text  |-> st.current_text,
            code_snippets |-> Flushed(st.code_snippets, st.current_code, <<NL>>),
            non_code_text |-> st.non_code_text]
      [] ~FenceLine(line) /\ st.is_code_block ->
           [st EXCEPT !.current_code = st.current_code \o <<line>>]
      [] ~FenceLine(line) /\ ~st.is_code_block ->
           [st EXCEPT !.current_text = st.current_text \o <<line>>]

\* C8: the splitter starts with the flag off and everything empty; each line it
\* consumes changes its locals as the fence-toggle algorithm says (a fence
\* outside code flushes the prose and enters code, a fence inside code flushes
\* the code and leaves code, a fence line is appended nowhere, any other line
\* goes to the active accumulator); picking up a part, string or structured,
\* changes no local; the return flushes the remaining prose only; and the one
\* string a / fence / code1 / fence / b yields code [code1] and prose [a, b].
C8_FenceToggle ==
    /\ [](split_pc = "loop" /\ part_i = 1 /\ lines = <<>> => locals = SplitInit)
    /\ [][split_pc = "loop" =>
            /\ lines # <<>> => locals' = ToggleStep(locals, Head(lines))
            /\ lines = <<>> /\ part_i <= Len(parts) => locals' = locals
            /\ lines = <<>> /\ part_i > Len(parts)
               => locals' = [locals EXCEPT
                               !.non_code_text =
                                   Flushed(locals.non_code_text,
                                           locals.current_text, <<SP>>)]]_vars
    /\ [](split_pc = "done" /\ parts = <<StrPart(T_doc)>>
          => /\ locals.code_snippets = <<T_code1>>
             /\ locals.non_code_text = <<T_a, T_b>>)

\* C8 witness: the splitter has returned from a / fence / code1 / fence / b
C8_Witness ==
    /\ split_pc = "done"
    /\ parts = <<StrPart(T_doc)>>
    /\ locals.code_snippets = <<T_code1>>

\* the lines of the string parts, in input order
RECURSIVE AllLines(_)
AllLines(ps) ==
    IF ps = <<>> THEN <<>>
    ELSE IF Head(ps).t = "str"
    THEN SplitLines(Head(ps).v) \o AllLines(Tail(ps))
    ELSE AllLines(Tail(ps))

NoFence(ps) == \A n \in 1..Len(AllLines(ps)) : ~FenceLine(AllLines(ps)[n])

\* C9 (as claimed): for every input with no fence line the splitter returns no
\* code snippet and exactly one prose segment, the join of all input lines.
C9_NoFenceOneSegment ==
    split_pc = "done" /\ NoFence(parts)
    => /\ locals.code_snippets = <<>>
       /\ locals.non_code_text = <<Join(AllLines(parts), <<SP>>)>>

\* C9 (amended): for every input with no fence line and at least one string
\* part the splitter returns no code snippet and exactly one prose segment, the
\* lines of all string parts in input order joined by one space; with no
\* string part it returns no prose segment at all.
C9_NoFenceOneSegmentIfText ==
    split_pc = "done" /\ NoFence(parts)
    => /\ locals.code_snippets = <<>>
       /\ locals.non_code_text =
            IF \E n \in 1..Len(parts) : parts[n].t = "str"
            THEN <<Join(AllLines(parts), <<SP>>)>>
            ELSE <<>>

\* C9 witness: the splitter has returned from a two-line string, a structured
\* part and a string of two backticks
C9_Witness ==
    /\ split_pc = "done"
    /\ parts = <<StrPart(T_lines), DictPart, StrPart(T_two_ticks)>>
    /\ locals.non_code_text = <<T_a \o <<SP, SP>> \o T_b \o <<SP>> \o T_two_ticks>>

IsPrefix(s, t) == Len(s) <= Len(t) /\ SubSeq(t, 1, Len(s)) = s

\* C10: the splitter can always take its next step (an unbalanced fence raises
\* nothing); no step removes or changes a snippet or segment already emitted;
\* and a step that begins and ends inside a code block, the return included,
\* emits nothing, so the lines of a block still open at the end are in neither
\* output.
C10_UnterminatedBlockDiscarded ==
    /\ [](split_pc = "loop" => ENABLED SplitNext)
    /\ [][/\ IsPrefix(locals.code_snippets, locals'.code_snippets)
          /\ IsPrefix(locals.non_code_text, locals'.non_code_text)
          /\ locals.is_code_block /\ (locals'.is_code_block \/ split_pc' = "done")
             => /\ locals'.code_snippets = locals.code_snippets
                /\ locals'.non_code_text = locals.non_code_text]_vars

\* C10 witness: the splitter has returned with a block open that holds lines,
\* after a snippet and a segment were emitted
C10_Witness ==
    /\ split_pc = "done"
    /\ locals.is_code_block
    /\ locals.current_code # <<>>
    /\ locals.code_snippets # <<>>
    /\ locals.non_code_text # <<>>

\* ---- forward ----

\* the queries of a call, as a list, hold no non-empty string
NoQueryText(q) ==
    IF q.t = "str" THEN q.v = <<>>
    ELSE \A n \in 1..Len(q.v) : Len(q.v[n]) = 0

\* C11: a call of forward with the empty string, the empty list or a list of
\* empty strings only has returned the empty list, and neither the embedding
\* function nor the collection's query was called.
C11_EmptyQueryNoBackend ==
    \A p \in Procs :
        (proc[p].pc = "queried" /\ NoQueryText(proc[p].call.query_or_queries))
        => /\ proc[p].result = <<>>
           /\ ~proc[p].call.embed_called
           /\ ~proc[p].call.query_called

\* C11 witness: forward has returned from a list of two empty strings
C11_Witness ==
    /\ proc["main"].pc = "queried"
    /\ proc["main"].call.query_or_queries = JList(<<<<>>, <<>>>>)
    /\ collection # <<>>

\* C12: a call of forward in which the embedding function raised, returned no
\* embeddings or returned an empty first embedding has returned the empty list
\* without calling the collection's query; a call in which the query raised
\* has returned the empty list; no such call ends the process.
C12_QueryFailureContained ==
    \A p \in Procs :
        /\ (proc[p].pc = "queried"
             /\ proc[p].call.embed \in {"raise", "none", "blank"})
            => /\ proc[p].result = <<>>
               /\ proc[p].call.embed_called
               /\ ~proc[p].call.query_called
        /\ (proc[p].pc = "queried" /\ proc[p].call.query = "raise")
            => /\ proc[p].result = <<>>
               /\ proc[p].call.query_called
        /\ proc[p].call.embed_called => proc[p].pc = "queried"

\* C12 witness: the query raised on a collection that holds records
C12_Witness ==
    /\ proc["main"].pc = "queried"
    /\ proc["main"].call.query = "raise"
    /\ proc["main"].call.embed = "ok"
    /\ collection # <<>>

\* ---- the run of the constructor ----

\* the ingestion run of p's constructor is over
RunEnded(p) ==
    /\ proc[p].check_for_updates
    /\ ~proc[p].enforced
    /\ proc[p].pc \in {"idle", "crashed"}

Skipped(p) ==
    /\ proc[p].pc = "idle"
    /\ proc[p].current_checksum = proc[p].last_processed_checksum
    /\ proc[p].ops = <<>>

FingerprintPersisted(p) ==
    /\ proc[p].pc = "idle"
    /\ proc[p].current_checksum # proc[p].last_processed_checksum
    /\ ~JsonErrorLogged(p)
    /\ checksum_file = proc[p].current_checksum

Failed(p) ==
    /\ proc[p].current_checksum # proc[p].last_processed_checksum
    /\ proc[p].pc = "crashed" \/ JsonErrorLogged(p)
    /\ checksum_file = proc[p].last_processed_checksum

\* C13 (as claimed): the step that ends the constructor's run leaves it in
\* exactly one of Skipped, FingerprintPersisted and Failed; the step that
\* writes the checksum file is taken only after a walk that reached the end of
\* the archive with no parsing error, it writes nothing to the collection, and
\* it ends the run, so that every write of the run came before it.
C13_RunStateMachine ==
    [][\A p \in Procs :
          /\ (~RunEnded(p) /\ RunEnded(p)')
             => /\ Skipped(p)' \/ FingerprintPersisted(p)' \/ Failed(p)'
                /\ ~(Skipped(p)' /\ FingerprintPersisted(p)')
                /\ ~(Skipped(p)' /\ Failed(p)')
                /\ ~(FingerprintPersisted(p)' /\ Failed(p)')
          /\ (proc[p].pc = "save" /\ proc'[p].pc # "save")
             => /\ ~JsonErrorLogged(p)
                /\ proc[p].count + 1 = Len(json_file.items)
                /\ collection' = collection
                /\ proc'[p].ops = proc[p].ops
                /\ RunEnded(p)']_vars

\* ---- pairing ----

\* the snippets and prose segments of node d: none without a message or parts
Emitted(d) ==
    IF Has(d, "message") /\ Get(d, "message").t = "dict"
    THEN LET c == Get(Get(d, "message"), "content")
         IN  IF Has(c, "parts") /\ Get(c, "parts").t = "list"
             THEN extract_code_and_text(Get(c, "parts").v)
             ELSE <<<<>>, <<>>>>
    ELSE <<<<>>, <<>>>>

Shorter(d) ==
    LET e == Emitted(d)
    IN  IF Len(e[1]) <= Len(e[2]) THEN Len(e[1]) ELSE Len(e[2])

\* the upserts p has issued for the node at hand
Done(p) ==
    Shorter(proc[p].validated_data[1]) - Len(proc[p].pairs)
        + (IF proc[p].pc = "file" THEN 1 ELSE 0)

\* while p works on a node: the upserts issued for it so far are the first
\* Done(p) positions of its snippets and prose segments, in order
PairedByPosition(p) ==
    LET e == Emitted(proc[p].validated_data[1])
        ops == proc[p].ops
        done == Done(p)
    IN  /\ done \in 0..Shorter(proc[p].validated_data[1])
        /\ done <= Len(ops)
        /\ \A i \in 1..done :
               /\ ops[Len(ops) - done + i].documents = e[1][i]
               /\ ops[Len(ops) - done + i].metadatas.description = e[2][i]

\* C14: for each node with a message the pass issues exactly min(number of
\* code snippets, number of prose segments) upserts, the i-th with the i-th
\* snippet as document and the i-th prose segment as description; it leaves
\* the node only when that many are issued, and a node with no snippet or no
\* prose segment gets no upsert.
C14_PairingRule ==
    [][\A p \in Procs :
          /\ proc[p].pc \in {"get", "write", "file"} => PairedByPosition(p)
          /\ (proc[p].pc = "file" /\ proc'[p].pc \in {"nodes", "get"})
             => /\ proc'[p].ops = proc[p].ops
                /\ proc'[p].pc = "nodes" <=> Done(p) = Shorter(proc[p].validated_data[1])
          /\ (proc[p].pc = "nodes" /\ proc'[p].pc = "nodes")
             => /\ proc'[p].ops = proc[p].ops
                /\ Shorter(Head(proc[p].nodes)) = 0
          /\ (proc[p].pc = "nodes" /\ proc'[p].pc = "get")
             => Shorter(Head(proc[p].nodes)) > 0]_vars

\* C14 witness: after a node with two snippets and one prose segment got one
\* upsert, a node with two snippets and two segments has got its second
C14_Witness ==
    /\ proc["main"].pc = "file"
    /\ json_file.items = <<ConvBadNode, ConvU>>
    /\ Len(proc["main"].ops) = 3
    /\ proc["main"].ops[1].documents = T_x1
    /\ proc["main"].ops[2].metadatas.description = T_see
    /\ proc["main"].ops[3].documents = T_y
    /\ proc["main"].ops[3].metadatas.description = T_outro

\* ---- conversations against each other ----

\* C15 (as claimed): no identifier written for one conversation of the archive
\* is written for another, different conversation of it.
C15_CrossConversationIsolation ==
    \A p \in Procs :
        \A i, j \in 1..Len(proc[p].ops) :
            LET a == proc[p].ops[i]
                b == proc[p].ops[j]
            IN  (/\ a.count # b.count
                 /\ json_file.items[a.count + 1] # json_file.items[b.count + 1])
                => a.ids # b.ids

\* C16 (as claimed): every add and update of a pass is for a conversation that
\* validates as a whole, its mapping's nodes included.
C16_InvalidConversationSkippedWhole ==
    \A p \in Procs :
        \A i \in 1..Len(proc[p].ops) :
            PassesValidation(json_file.items[proc[p].ops[i].count + 1])

\* C17 (as claimed): a failure of the collection's get, add or update does not
\* end the pass.
C17_StoreFailureContinues ==
    \A p \in Procs : proc[p].pc = "crashed" => proc[p].exception # "StoreError"

\* C19 (as claimed): a failure to make the conversation's directory or to
\* write the snippet file does not end the pass, and the record written for the
\* snippet stays in the collection.
C19_SideFileFailureNonFatal ==
    \A p \in Procs :
        /\ proc[p].pc = "crashed" => proc[p].exception # "OSError"
        /\ \A i \in 1..Len(proc[p].ops) :
               \E n \in 1..Len(collection) : collection[n].id = proc[p].ops[i].ids

\* ---- two runs at once ----

\* C18 (as claimed): two runs started against the same collection are never
\* active together in a way that lets both look an identifier up, find it
\* absent and add it: no identifier is added by both runs.
C18_OneIngestionAtATime ==
    \A p, q \in Procs :
        p # q
        => \A i \in 1..Len(proc[p].ops) : \A j \in 1..Len(proc[q].ops) :
               ~(/\ proc[p].ops[i].op = "add"
                 /\ proc[q].ops[j].op = "add"
                 /\ proc[p].ops[i].ids = proc[q].ops[j].ids)

\* ---- the digest a run persists ----

\* C20: the digest of a run is computed from the archive as it is when the
\* constructor starts, it never changes afterwards, and it is the digest the
\* run writes to the checksum file; so when the archive was replaced during the
\* walk, a constructor that comes next finds the digests to differ.
C20_DigestComputedBeforeWalk ==
    [][\A p \in Procs :
          /\ (proc[p].pc = "new" /\ proc'[p].pc = "walk")
             => proc'[p].current_checksum = Some(calculate_file_checksum(json_file))
          /\ (proc[p].pc \notin {"new", "off"})
             => proc'[p].current_checksum = proc[p].current_checksum
          /\ (proc[p].pc = "save" /\ proc'[p].pc = "idle")
             => /\ checksum_file' = proc[p].current_checksum
                /\ proc[p].current_checksum # Some(calculate_file_checksum(json_file))
                   => HasChanged(calculate_file_checksum(json_file'),
                                 load_last_processed_checksum(checksum_file'))]_vars

\* C20 witness: a run has written documents and persisted its digest, and the
\* archive is no longer the one the digest was computed from
C20_Witness ==
    /\ proc["main"].pc = "idle"
    /\ proc["main"].in_init
    /\ ~proc["main"].enforced
    /\ proc["main"].ops # <<>>
    /\ checksum_file = proc["main"].current_checksum
    /\ checksum_file # Some(calculate_file_checksum(json_file))

\* ---- several queries in one call ----

\* the non-empty queries of a call, in the order given
QueriesOf(q) ==
    LET given == IF q.t = "str" THEN <<q.v>> ELSE q.v
        Kept(x) == Len(x) > 0
    IN  SelectSeq(given, Kept)

\* C21: a call of forward that reached the collection handed all its
\* non-empty queries to the embedding function and all their embeddings to one
\* collection.query; what it returned is, entry by entry, what the collection
\* ranks for the first non-empty query alone under the role and contains
\* filters, cut at k (self.k when k is None), so at most k entries and none
\* that only a later query brings in.
C21_FirstQueryOnly ==
    \A p \in Procs :
        (/\ proc[p].pc = "queried"
         /\ proc[p].call.query_called
         /\ proc[p].call.query = "ok")
        => LET c == proc[p].call
               qs == QueriesOf(c.query_or_queries)
               n == IF c.k = None THEN DefaultK ELSE c.k[1]
               first == QueryOne(collection, Embed(qs[1]), n, [role |-> c.role], c.contains)
           IN  /\ c.embedded = qs
               /\ Len(c.sent) = Len(qs)
               /\ \A i \in 1..Len(qs) : c.sent[i] = Embed(qs[i])
               /\ Len(proc[p].result) = Len(first)
               /\ Len(proc[p].result) <= n
               /\ \A i \in 1..Len(first) :
                      /\ proc[p].result[i].code = first[i].document
                      /\ proc[p].result[i].id = first[i].metadata.id
                      /\ proc[p].result[i].description = first[i].metadata.description

\* C21 witness: forward(["", "y", "x = 1"], k=1) over a collection that holds
\* both snippets under role assistant has returned the record of "y" alone
C21_Witness ==
    /\ proc["main"].pc = "queried"
    /\ proc["main"].call.query_or_queries = JList(<<<<>>, T_y, T_x1>>)
    /\ proc["main"].call.query = "ok"
    /\ Len(collection) = 2
    /\ collection[1].document = T_x1
    /\ collection[1].metadata.role = "assistant"
    /\ collection[2].document = T_y
    /\ Len(proc["main"].result) = 1
    /\ proc["main"].result[1].code = T_y

====
